---- MODULE Spec2Model ----
(***************************************************************************)
(* A model of fill_report.py: the name resolver (match_rows), the window   *)
(* aggregator (agg_values), the candidate ranker (miss_candidates), the    *)
(* template writer (_safe_write_cell, write_datetime) and the              *)
(* orchestration loop of main().                                           *)
(*                                                                         *)
(* Python strings are sequences of one-character strings, so that strip,   *)
(* split, lower/upper, substring search, regular-expression search and     *)
(* code-point comparison are computed rather than assumed.                 *)
(***************************************************************************)
EXTENDS Integers, Sequences, FiniteSets, TLC

VARIABLES pc, df, src, agg, topk, perm, sub, v, vPerm, cands, candsPerm,
          ws, writes, map_df, i, filled, missing_items, outcome

vars == <<pc, df, src, agg, topk, perm, sub, v, vPerm, cands, candsPerm,
          ws, writes, map_df, i, filled, missing_items, outcome>>

(***************************************************************************)
(* Bounds of the model.                                                    *)
(***************************************************************************)
MaxNameLen == 2
MaxSrcLen == 3
MaxMatchRows == 2
MaxAggRows == 3
MaxRankRows == 3
MaxWrites == 2
MaxMap == 2

(***************************************************************************)
(* Program constants.                                                      *)
(***************************************************************************)
MISS_CANDIDATE_TOPK == 5
DEBUG_MISS_CANDIDATES == TRUE
FILL_IF_MISSING == <<"N", "A">>

\* Cell and column values: None/NaN, a float (a reduced fraction) or a str.
NoneV == [kind |-> "none"]
Num(n, d) == [kind |-> "num", num |-> n, den |-> d]
Str(s) == [kind |-> "str", s |-> s]

(***************************************************************************)
(* Python str operations.                                                  *)
(***************************************************************************)
CasePairs ==
    << <<"a", "A">>, <<"b", "B">>, <<"c", "C">>, <<"d", "D">>, <<"e", "E">>,
       <<"f", "F">>, <<"g", "G">>, <<"h", "H">>, <<"i", "I">>, <<"j", "J">>,
       <<"k", "K">>, <<"l", "L">>, <<"m", "M">>, <<"n", "N">>, <<"o", "O">>,
       <<"p", "P">>, <<"q", "Q">>, <<"r", "R">>, <<"s", "S">>, <<"t", "T">>,
       <<"u", "U">>, <<"v", "V">>, <<"w", "W">>, <<"x", "X">>, <<"y", "Y">>,
       <<"z", "Z">> >>

Pairs == {CasePairs[k] : k \in 1..Len(CasePairs)}
LowerLetters == {p[1] : p \in Pairs}
UpperLetters == {p[2] : p \in Pairs}

\* The other characters that occur in the model's strings.
Marks == {" ", "(", ")", "-", ".", ":"}
DigitChars == {"0", "1", "2", "3", "4", "5", "6", "7", "8", "9"}
Chars == LowerLetters \cup UpperLetters \cup Marks \cup DigitChars

LetterIndex(c) == CHOOSE k \in 1..Len(CasePairs) : c \in {CasePairs[k][1], CasePairs[k][2]}

\* ord(c): str comparison is by code point.
OrdOf ==
    [c \in Chars |->
        IF c \in UpperLetters THEN 64 + LetterIndex(c)
        ELSE IF c \in LowerLetters THEN 96 + LetterIndex(c)
        ELSE IF c \in DigitChars THEN 48 + (CHOOSE d \in 0..9 : c = <<"0", "1", "2", "3", "4", "5", "6", "7", "8", "9">>[d + 1])
        ELSE IF c = " " THEN 32
        ELSE IF c = "(" THEN 40
        ELSE IF c = ")" THEN 41
        ELSE IF c = "-" THEN 45
        ELSE IF c = "." THEN 46
        ELSE 58]

Ord(c) == OrdOf[c]

LowerOf == [c \in Chars |-> IF c \in UpperLetters THEN CasePairs[LetterIndex(c)][1] ELSE c]
UpperOf == [c \in Chars |-> IF c \in LowerLetters THEN CasePairs[LetterIndex(c)][2] ELSE c]

LowerChar(c) == LowerOf[c]
UpperChar(c) == UpperOf[c]

\* str.lower(), str.upper()
Lower(s) == [k \in 1..Len(s) |-> LowerChar(s[k])]
Upper(s) == [k \in 1..Len(s) |-> UpperChar(s[k])]

IsSpace(c) == c = " "

RECURSIVE LStrip(_)
LStrip(s) == IF s # <<>> /\ IsSpace(Head(s)) THEN LStrip(Tail(s)) ELSE s

RECURSIVE RStrip(_)
RStrip(s) ==
    IF s # <<>> /\ IsSpace(s[Len(s)]) THEN RStrip(SubSeq(s, 1, Len(s) - 1)) ELSE s

\* str.strip()
Strip(s) == RStrip(LStrip(s))

\* str.split(): the maximal runs of non-whitespace characters, in order.
RECURSIVE SplitFrom(_, _, _)
SplitFrom(s, cur, acc) ==
    IF s = <<>> THEN (IF cur = <<>> THEN acc ELSE Append(acc, cur))
    ELSE IF IsSpace(Head(s))
         THEN SplitFrom(Tail(s), <<>>, IF cur = <<>> THEN acc ELSE Append(acc, cur))
    ELSE SplitFrom(Tail(s), Append(cur, Head(s)), acc)

Split(s) == SplitFrom(s, <<>>, <<>>)

\* `pat in text`
StrIn(pat, text) ==
    \E o \in 0..(Len(text) - Len(pat)) :
        \A j \in 1..Len(pat) : text[o + j] = pat[j]

\* a < b for str: lexicographic by code point, a proper prefix first.
StrLess(a, b) ==
    \E k \in 1..(Len(b)) :
        /\ k <= Len(a) + 1
        /\ \A j \in 1..(k - 1) : a[j] = b[j]
        /\ (k = Len(a) + 1 \/ Ord(a[k]) < Ord(b[k]))

(***************************************************************************)
(* re: the part of the pattern language that the model's characters reach. *)
(* A letter or a space matches itself (any case under re.IGNORECASE), "."  *)
(* matches any character, "(" and ")" open and close a group; a pattern    *)
(* whose parentheses do not balance does not compile (re.error).           *)
(***************************************************************************)
RECURSIVE ParenOk(_, _)
ParenOk(pat, depth) ==
    IF pat = <<>> THEN depth = 0
    ELSE IF Head(pat) = "(" THEN ParenOk(Tail(pat), depth + 1)
    ELSE IF Head(pat) = ")" THEN depth > 0 /\ ParenOk(Tail(pat), depth - 1)
    ELSE ParenOk(Tail(pat), depth)

ReCompiles(pat) == ParenOk(pat, 0)

ReAtoms(pat) == SelectSeq(pat, LAMBDA c : c # "(" /\ c # ")")

ReMatchChar(p, c) == p = "." \/ LowerChar(p) = LowerChar(c)

\* re.compile(pat, re.IGNORECASE).search(text) is not None, for a pattern
\* that compiles.
ReSearch(pat, text) ==
    LET atoms == ReAtoms(pat)
    IN  \E o \in 0..(Len(text) - Len(atoms)) :
            \A j \in 1..Len(atoms) : ReMatchChar(atoms[j], text[o + j])

(***************************************************************************)
(* The long-form table.  A row is [Time, Name, Value]; Time is <<t>> or    *)
(* <<>> (NaT).                                                             *)
(***************************************************************************)
Row(t, n, x) == [Time |-> t, Name |-> n, Value |-> x]

RECURSIVE SeqsUpTo(_, _)
SeqsUpTo(S, n) ==
    IF n = 0 THEN {<<>>}
    ELSE LET shorter == SeqsUpTo(S, n - 1)
         IN  shorter \cup {Append(q, x) : q \in {r \in shorter : Len(r) = n - 1}, x \in S}

\* read_sources: every value column of the CSV becomes the rows of one
\* Name, with the column header stripped.
MeltColumn(header, t, x) == Row(t, Strip(header), x)

RECURSIVE SubFrame(_, _, _)
SubFrame(frame, idx, k) ==
    IF k > Len(frame) THEN <<>>
    ELSE (IF k \in idx THEN <<frame[k]>> ELSE <<>>) \o SubFrame(frame, idx, k + 1)

\* df[mask]: the rows of the mask, in the frame's order.
Sub(frame, idx) == SubFrame(frame, idx, 1)

(***************************************************************************)
(* match_rows                                                              *)
(***************************************************************************)
Matched(idx) == [raised |-> FALSE, idx |-> idx]
ReError == [raised |-> TRUE, idx |-> {}]

\* Series.str.contains(pat, case=False, na=False): regex=True is the default.
StrContains(frame, pat) == {k \in 1..Len(frame) : ReSearch(pat, frame[k].Name)}

KeywordMask(frame, keywords) ==
    {k \in 1..Len(frame) :
        \A j \in 1..Len(keywords) : ReSearch(keywords[j], frame[k].Name)}

\* match_rows without its first tier.
MatchRowsNoExactTier(frame, source_name) ==
    LET name == Strip(source_name)
        keywords == Split(name)
    IN  IF name = <<>> \/ frame = <<>> THEN Matched({})
        ELSE IF ~ReCompiles(name) THEN ReError
        ELSE IF StrContains(frame, name) # {} THEN Matched(StrContains(frame, name))
        ELSE IF \E j \in 1..Len(keywords) : ~ReCompiles(keywords[j]) THEN ReError
        ELSE Matched(KeywordMask(frame, keywords))

\* match_rows without the `not name` guard of its early return.
MatchRowsNoBlankGuard(frame, source_name) ==
    LET name == Strip(source_name)
        exact == {k \in 1..Len(frame) : frame[k].Name = name}
        keywords == Split(name)
    IN  IF frame = <<>> THEN Matched({})
        ELSE IF exact # {} THEN Matched(exact)
        ELSE IF ~ReCompiles(name) THEN ReError
        ELSE IF StrContains(frame, name) # {} THEN Matched(StrContains(frame, name))
        ELSE IF \E j \in 1..Len(keywords) : ~ReCompiles(keywords[j]) THEN ReError
        ELSE Matched(KeywordMask(frame, keywords))

MatchRows(frame, source_name) ==
    LET name == Strip(source_name)
        exact == {k \in 1..Len(frame) : frame[k].Name = name}
        keywords == Split(name)
    IN  IF name = <<>> \/ frame = <<>> THEN Matched({})
        ELSE IF exact # {} THEN Matched(exact)
        ELSE IF ~ReCompiles(name) THEN ReError
        ELSE IF StrContains(frame, name) # {} THEN Matched(StrContains(frame, name))
        ELSE IF \E j \in 1..Len(keywords) : ~ReCompiles(keywords[j]) THEN ReError
        ELSE Matched(KeywordMask(frame, keywords))

(***************************************************************************)
(* agg_values                                                              *)
(***************************************************************************)
Digits == <<"0", "1", "2", "3", "4", "5", "6", "7", "8", "9">>

IsDigit(c) == \E k \in 1..Len(Digits) : Digits[k] = c

DigitVal(c) == (CHOOSE k \in 1..Len(Digits) : Digits[k] = c) - 1

RECURSIVE ParseDigits(_, _)
ParseDigits(s, acc) ==
    IF s = <<>> THEN acc ELSE ParseDigits(Tail(s), 10 * acc + DigitVal(Head(s)))

\* pd.to_numeric(..., errors="coerce") of one value: a number stays, a text
\* of decimal digits (blanks around it ignored) parses, anything else is NaN.
ToNumeric(x) ==
    IF x.kind = "num" THEN x
    ELSE IF x.kind = "str" /\ Strip(x.s) # <<>> /\ \A k \in 1..Len(Strip(x.s)) : IsDigit(Strip(x.s)[k])
         THEN Num(ParseDigits(Strip(x.s), 0), 1)
    ELSE NoneV

\* df2 after to_numeric and dropna(subset=[Value, Time])
Coerced(frame) ==
    SelectSeq([k \in 1..Len(frame) |-> [frame[k] EXCEPT !.Value = ToNumeric(frame[k].Value)]],
              LAMBDA r : r.Value # NoneV /\ r.Time # <<>>)

RECURSIVE Gcd(_, _)
Gcd(a, b) == IF b = 0 THEN a ELSE Gcd(b, a % b)

Abs(n) == IF n < 0 THEN -n ELSE n

\* The float n/d, as a reduced fraction.
Float(n, d) == LET g == Gcd(Abs(n), d) IN Num(n \div g, d \div g)

RECURSIVE SumValues(_)
SumValues(rows) ==
    IF rows = <<>> THEN 0 ELSE Head(rows).Value.num + SumValues(Tail(rows))

RECURSIVE MaxValue(_)
MaxValue(rows) ==
    IF Len(rows) = 1 THEN rows[1].Value.num
    ELSE LET m == MaxValue(Tail(rows))
         IN  IF rows[1].Value.num > m THEN rows[1].Value.num ELSE m

RECURSIVE MinValue(_)
MinValue(rows) ==
    IF Len(rows) = 1 THEN rows[1].Value.num
    ELSE LET m == MinValue(Tail(rows))
         IN  IF rows[1].Value.num < m THEN rows[1].Value.num ELSE m

\* df2.iloc[-1][Value] with the sort left out.
LastValuesUnsorted(rows) == {Float(rows[Len(rows)].Value.num, 1)}

\* df2.sort_values(Time).iloc[-1][Value]: the sort (kind "quicksort") is not
\* stable, so among the rows that share the greatest Time any one may be last.
LastValues(rows) ==
    {Float(rows[k].Value.num, 1) :
        k \in {k \in 1..Len(rows) : \A j \in 1..Len(rows) : rows[j].Time[1] <= rows[k].Time[1]}}

LAST == <<"L", "A", "S", "T">>
AVG == <<"A", "V", "G">>
MAX == <<"M", "A", "X">>
MIN == <<"M", "I", "N">>
SUM == <<"S", "U", "M">>

\* (agg or "LAST").upper().strip()
AggMode(mode) == Strip(Upper(IF mode = <<>> THEN LAST ELSE mode))

\* agg_values without its second emptiness test.
AggValuesNoDropCheck(frame, mode) ==
    LET df2 == Coerced(frame)
        m == AggMode(mode)
    IN  IF frame = <<>> THEN {NoneV}
        ELSE IF m = SUM THEN {Float(SumValues(df2), 1)}
        ELSE IF df2 = <<>> THEN {NoneV}
        ELSE IF m = LAST THEN LastValues(df2)
        ELSE IF m = AVG THEN {Float(SumValues(df2), Len(df2))}
        ELSE IF m = MAX THEN {Float(MaxValue(df2), 1)}
        ELSE IF m = MIN THEN {Float(MinValue(df2), 1)}
        ELSE LastValues(df2)

\* agg_values(df, agg): the values the call may return.
AggValues(frame, mode) ==
    LET df2 == Coerced(frame)
        m == AggMode(mode)
    IN  IF frame = <<>> THEN {NoneV}
        ELSE IF df2 = <<>> THEN {NoneV}
        ELSE IF m = LAST THEN LastValues(df2)
        ELSE IF m = AVG THEN {Float(SumValues(df2), Len(df2))}
        ELSE IF m = MAX THEN {Float(MaxValue(df2), 1)}
        ELSE IF m = MIN THEN {Float(MinValue(df2), 1)}
        ELSE IF m = SUM THEN {Float(SumValues(df2), 1)}
        ELSE LastValues(df2)

(***************************************************************************)
(* miss_candidates                                                         *)
(***************************************************************************)
\* Series.unique(): the distinct names, in the order of first appearance.
RECURSIVE UniqueNames(_, _)
UniqueNames(frame, acc) ==
    IF frame = <<>> THEN acc
    ELSE UniqueNames(Tail(frame),
                     IF \E k \in 1..Len(acc) : acc[k] = Head(frame).Name
                     THEN acc ELSE Append(acc, Head(frame).Name))

\* sum(1 for k in kws if k.lower() in n_low)
Score(kws, n) == Cardinality({j \in 1..Len(kws) : StrIn(Lower(kws[j]), Lower(n))})

Hit(score, n) == [score |-> score, n |-> n]

\* The sort key with the name left out.
KeyLessScoreOnly(h1, h2) == h1.score > h2.score

\* key=lambda x: (-x[0], x[1])
KeyLess(h1, h2) ==
    h1.score > h2.score \/ (h1.score = h2.score /\ StrLess(h1.n, h2.n))

RECURSIVE InsertHit(_, _)
InsertHit(sorted, h) ==
    IF sorted = <<>> THEN <<h>>
    ELSE IF KeyLess(h, Head(sorted)) THEN <<h>> \o sorted
    ELSE <<Head(sorted)>> \o InsertHit(Tail(sorted), h)

\* list.sort(key=...): a stable sort.
RECURSIVE SortHits(_, _)
SortHits(hits, sorted) ==
    IF hits = <<>> THEN sorted
    ELSE SortHits(Tail(hits), InsertHit(sorted, Head(hits)))

MissCandidates(frame, source, k) ==
    LET s == Strip(source)
        kws == Split(s)
        candidates == UniqueNames(frame, <<>>)
        scored == [c \in 1..Len(candidates) |-> Hit(Score(kws, candidates[c]), candidates[c])]
        hits == SortHits(SelectSeq(scored, LAMBDA h : h.score > 0), <<>>)
        top == SubSeq(hits, 1, IF k < Len(hits) THEN k ELSE Len(hits))
    IN  IF frame = <<>> THEN <<>>
        ELSE IF s = <<>> THEN <<>>
        ELSE IF kws = <<>> THEN <<>>
        ELSE [c \in 1..Len(top) |-> top[c].n]

(***************************************************************************)
(* The worksheet.  An address is <<row, column>>; DATE_CELL "E34" is       *)
(* <<34, 5>>.  A sheet holds its cells' values, the addresses that are     *)
(* MergedCell objects, and its merged ranges.  The grid of the model is    *)
(* the block of DATE_CELL, TIME_CELL and the column to their left.         *)
(***************************************************************************)
DATE_CELL == <<34, 5>>
TIME_CELL == <<35, 5>>
DATETIME_CELL == <<>>
WRITE_DATETIME_TO_TEMPLATE == TRUE

GridRows == DATE_CELL[1]..TIME_CELL[1]
GridCols == (DATE_CELL[2] - 1)..DATE_CELL[2]
Grid == GridRows \X GridCols

CellRange(r1, c1, r2, c2) == [min_row |-> r1, min_col |-> c1, max_row |-> r2, max_col |-> c2]

\* addr in r
InRange(addr, r) ==
    /\ r.min_row <= addr[1] /\ addr[1] <= r.max_row
    /\ r.min_col <= addr[2] /\ addr[2] <= r.max_col

Anchor(r) == <<r.min_row, r.min_col>>

Written(sheet, addr, value) == [sheet EXCEPT !.cells[addr] = value]

\* _safe_write_cell writing to the address itself.
SafeWriteCellNoRedirect(sheet, addr, value) ==
    [sheet |-> IF addr \in sheet.merged THEN sheet ELSE Written(sheet, addr, value),
     ret |-> NoneV]

\* _safe_write_cell keeping a value that is already there.
SafeWriteCellKeepFirst(sheet, addr, value) ==
    LET target ==
            IF addr \notin sheet.merged THEN addr
            ELSE IF \E r \in sheet.ranges : InRange(addr, r)
                 THEN Anchor(CHOOSE r \in sheet.ranges : InRange(addr, r))
            ELSE addr
    IN  [sheet |-> IF (addr \in sheet.merged /\ target = addr) \/ sheet.cells[target] # NoneV
                   THEN sheet ELSE Written(sheet, target, value),
         ret |-> NoneV]

\* _safe_write_cell(ws, addr, value): the sheet afterwards and the value
\* returned.  The merged ranges of a sheet do not overlap, so at most one
\* contains the address.
SafeWriteCell(sheet, addr, value) ==
    [sheet |->
        IF addr \in sheet.merged
        THEN IF \E r \in sheet.ranges : InRange(addr, r)
             THEN Written(sheet, Anchor(CHOOSE r \in sheet.ranges : InRange(addr, r)), value)
             ELSE sheet
        ELSE Written(sheet, addr, value),
     ret |-> NoneV]

\* center_time, the prompt's example 2025-12-25 01:35, as strftime gives it.
DateStr == Str(<<"2", "0", "2", "5", "-", "1", "2", "-", "2", "5">>)
TimeStr == Str(<<"0", "1", ":", "3", "5">>)
DateTimeStr == Str(DateStr.s \o <<" ">> \o TimeStr.s)

\* One entry of the log of calls of _safe_write_cell: the arguments, the
\* value returned, and whether the call found no cell to write to.
WriteRecord(addr, value, res, sheet) ==
    [addr |-> addr, value |-> value, ret |-> res.ret,
     void |-> addr \in sheet.merged /\ ~\E r \in sheet.ranges : InRange(addr, r)]

\* write_datetime: the configured cells, in the order DATETIME_CELL,
\* DATE_CELL, TIME_CELL; the A1..A3 fallback applies only when none is
\* configured.  The state is the sheet and the log of the calls.
WriteDatetimeStep(st, addr, value) ==
    IF addr = <<>> THEN st
    ELSE [sheet |-> SafeWriteCell(st.sheet, addr, value).sheet,
          log |-> Append(st.log, WriteRecord(addr, value, SafeWriteCell(st.sheet, addr, value), st.sheet))]

WriteDatetime(sheet) ==
    LET s0 == [sheet |-> sheet, log |-> <<>>]
        s1 == WriteDatetimeStep(s0, DATETIME_CELL, DateTimeStr)
        s2 == WriteDatetimeStep(s1, DATE_CELL, DateStr)
        s3 == WriteDatetimeStep(s2, TIME_CELL, TimeStr)
    IN  IF WRITE_DATETIME_TO_TEMPLATE THEN s3 ELSE s0

(***************************************************************************)
(* Templates: the merged ranges are rectangles of more than one cell that  *)
(* do not overlap; every member but the anchor is a MergedCell.  A damaged *)
(* template has one more MergedCell, which no range contains.              *)
(***************************************************************************)
Rects ==
    {CellRange(r1, c1, r2, c2) : r1 \in GridRows, c1 \in GridCols, r2 \in GridRows, c2 \in GridCols}

Ranges == {r \in Rects : r.min_row <= r.max_row /\ r.min_col <= r.max_col /\ Anchor(r) # <<r.max_row, r.max_col>>}

Disjoint(r, q) == ~\E a \in Grid : InRange(a, r) /\ InRange(a, q)

RangeSets == {R \in SUBSET Ranges : \A r, q \in R : r # q => Disjoint(r, q)}

MergedCells(R) == {a \in Grid : \E r \in R : InRange(a, r) /\ a # Anchor(r)}

Sheet(R, orphans) ==
    [cells |-> [a \in Grid |-> NoneV], merged |-> MergedCells(R) \cup orphans, ranges |-> R]

Templates ==
    {Sheet(R, {}) : R \in RangeSets}
        \cup UNION {{Sheet(R, {o}) : o \in {a \in Grid : ~\E r \in R : InRange(a, r)}} :
                        R \in RangeSets}

(***************************************************************************)
(* Specification of match_rows over the tables read_sources can produce.   *)
(***************************************************************************)
NameChars == {"a", "B"}
SrcChars == {"a", "b", " ", "("}

\* Column headers as the CSV gives them: a name, possibly padded with blanks.
Names == SeqsUpTo(NameChars, MaxNameLen) \ {<<>>}
RawNames == Names \cup {<<" ">> \o n : n \in Names} \cup {n \o <<" ">> : n \in Names}
SourceNames == SeqsUpTo(SrcChars, MaxSrcLen)

MatchTables ==
    {[k \in 1..Len(cols) |-> MeltColumn(cols[k], <<1>>, Num(1, 1))] :
        cols \in SeqsUpTo(RawNames, MaxMatchRows)}

NoSheet == [cells |-> <<>>, merged |-> {}, ranges |-> {}]

InitMatch ==
    /\ pc = "call"
    /\ df \in MatchTables
    /\ src \in SourceNames
    /\ sub = Matched({})
    /\ agg = <<>> /\ topk = 0 /\ perm = <<>>
    /\ v = NoneV /\ vPerm = NoneV /\ cands = <<>> /\ candsPerm = <<>>
    /\ ws = NoSheet /\ writes = <<>> /\ map_df = <<>> /\ i = 0
    /\ filled = 0 /\ missing_items = <<>> /\ outcome = <<>>

MatchRowsCall ==
    /\ pc = "call"
    /\ sub' = MatchRows(df, src)
    /\ pc' = "matched"
    /\ UNCHANGED <<df, src, agg, topk, perm, v, vPerm, cands, candsPerm,
                   ws, writes, map_df, i, filled, missing_items, outcome>>

NextMatch == MatchRowsCall

SpecMatch == InitMatch /\ [][NextMatch]_vars

(***************************************************************************)
(* Claims about match_rows.  The tiers as the specification words them:    *)
(* equality of the trimmed names, and plain case-insensitive substrings.   *)
(***************************************************************************)
Blank(s) == \A k \in 1..Len(s) : IsSpace(s[k])

ExactRows == {k \in 1..Len(df) : Strip(df[k].Name) = Strip(src)}

SubstringRows == {k \in 1..Len(df) : StrIn(Lower(Strip(src)), Lower(df[k].Name))}

KeywordRows ==
    {k \in 1..Len(df) :
        \A j \in 1..Len(Split(src)) : StrIn(Lower(Split(src)[j]), Lower(df[k].Name))}

\* C2: when some row's name equals the trimmed sourceName exactly, match_rows
\* returns exactly the exact-match rows, and no row of a later tier.
C2_TierPriority ==
    (pc = "matched" /\ ~Blank(src) /\ ExactRows # {}) => sub = Matched(ExactRows)

\* An exact row was returned while another row, left out, contains the name.
C2_Witness ==
    /\ pc = "matched"
    /\ ExactRows # {}
    /\ SubstringRows \ ExactRows # {}
    /\ sub = Matched(ExactRows)

\* C3: when neither the exact nor the substring tier matches a row,
\* match_rows returns exactly the rows containing every keyword as a
\* case-insensitive substring (possibly none) and raises no error.
C3_KeywordAnd ==
    (pc = "matched" /\ ~Blank(src) /\ df # <<>> /\ ExactRows = {} /\ SubstringRows = {})
        => sub = Matched(KeywordRows)

\* C4: a sourceName that is empty or all whitespace, or an empty table, gives
\* the empty subset.
C4_BlankGivesEmpty ==
    (pc = "matched" /\ (Blank(src) \/ df = <<>>)) => sub = Matched({})

\* A whitespace-only sourceName was resolved against a table with rows.
C4_Witness ==
    /\ pc = "matched"
    /\ src # <<>> /\ Blank(src)
    /\ df # <<>>
    /\ sub = Matched({})

(***************************************************************************)
(* Specification of agg_values: a subset, a mode, and the same subset with *)
(* its rows in another order.                                              *)
(***************************************************************************)
AggTimes == {<<1>>, <<2>>}
AggNumbers == {Num(0, 1), Num(2, 1)}

\* Rows with a number, with a text that is no number, with a text that is
\* one, and with no timestamp.
AggRows ==
    {Row(t, <<"a">>, x) : t \in AggTimes, x \in AggNumbers}
        \cup {Row(<<1>>, <<"a">>, Str(<<"x">>)), Row(<<2>>, <<"a">>, Str(<<"1">>)),
              Row(<<>>, <<"a">>, Num(2, 1))}

\* The five modes (AVG in lower case and padded), no mode, and an unknown one.
AggModes ==
    {<<>>, LAST, <<" ", "a", "v", "g">>, MAX, MIN, SUM, <<"n", "a", "n">>}

\* The orders in which n rows can be given.
Orders(n) == Permutations(1..n)

Reordered(frame, p) == [k \in 1..Len(frame) |-> frame[p[k]]]

InitAgg ==
    /\ pc = "call"
    /\ df \in SeqsUpTo(AggRows, MaxAggRows)
    /\ agg \in AggModes
    /\ perm = df
    /\ v = NoneV /\ vPerm = NoneV
    /\ src = <<>> /\ topk = 0 /\ sub = Matched({})
    /\ cands = <<>> /\ candsPerm = <<>>
    /\ ws = NoSheet /\ writes = <<>> /\ map_df = <<>> /\ i = 0
    /\ filled = 0 /\ missing_items = <<>> /\ outcome = <<>>

\* agg_values on the subset and on a reordering of it.
AggValuesCall ==
    /\ pc = "call"
    /\ \E p \in Orders(Len(df)) :
        /\ perm' = Reordered(df, p)
        /\ v' \in AggValues(df, agg)
        /\ vPerm' \in AggValues(Reordered(df, p), agg)
    /\ pc' = "aggregated"
    /\ UNCHANGED <<df, src, agg, topk, sub, cands, candsPerm,
                   ws, writes, map_df, i, filled, missing_items, outcome>>

NextAgg == AggValuesCall

SpecAgg == InitAgg /\ [][NextAgg]_vars

\* A row survives when its value is numeric and its timestamp is present.
Survives(r) == ToNumeric(r.Value) # NoneV /\ r.Time # <<>>

Survivors(frame) == {k \in 1..Len(frame) : Survives(frame[k])}

\* C5: agg_values returns None exactly when no row survives the coercion and
\* the drop, in every mode, and a number otherwise.
C5_AbsentIffEmpty ==
    pc = "aggregated" =>
        /\ (Survivors(df) = {} => v = NoneV)
        /\ (Survivors(df) # {} => v.kind = "num")

\* A subset with rows, none of which survives, was aggregated to None.
C5_Witness ==
    /\ pc = "aggregated"
    /\ df # <<>>
    /\ Survivors(df) = {}
    /\ v = NoneV

LastLike == AggMode(agg) \notin {AVG, MAX, MIN, SUM}

\* The surviving rows of the greatest timestamp carry one value.
LatestAgree ==
    \A a, b \in Survivors(df) :
        (\A k \in Survivors(df) : df[k].Time[1] <= df[a].Time[1] /\ df[k].Time[1] <= df[b].Time[1])
            => ToNumeric(df[a].Value) = ToNumeric(df[b].Value)

RankNames == {<<"a">>, <<"a", "B">>, <<"B", "a">>}
\* sourceNames: blank, one keyword, two keywords in either order, a keyword
\* twice, padding and runs of blanks, either case.
RankSources ==
    { <<>>, <<" ">>, <<"a">>, <<"b">>, <<"B">>, <<"a", "b">>, <<" ", "a", " ">>,
      <<"a", " ", "b">>, <<"b", " ", "A">>, <<"a", " ", "a">>, <<"b", " ", " ", "a">> }
RankTopK == {1, 2, MISS_CANDIDATE_TOPK}

InitRank ==
    /\ pc = "call"
    /\ df \in {[k \in 1..Len(ns) |-> Row(<<1>>, ns[k], Num(1, 1))] :
                  ns \in SeqsUpTo(RankNames, MaxRankRows)}
    /\ src \in RankSources
    /\ topk \in RankTopK
    /\ perm = df
    /\ cands = <<>> /\ candsPerm = <<>>
    /\ agg = <<>> /\ sub = Matched({}) /\ v = NoneV /\ vPerm = NoneV
    /\ ws = NoSheet /\ writes = <<>> /\ map_df = <<>> /\ i = 0
    /\ filled = 0 /\ missing_items = <<>> /\ outcome = <<>>

\* miss_candidates on the table and on a reordering of it.
MissCandidatesCall ==
    /\ pc = "call"
    /\ \E p \in Orders(Len(df)) :
        /\ perm' = Reordered(df, p)
        /\ cands' = MissCandidates(df, src, topk)
        /\ candsPerm' = MissCandidates(Reordered(df, p), src, topk)
    /\ pc' = "ranked"
    /\ UNCHANGED <<df, src, agg, topk, sub, v, vPerm,
                   ws, writes, map_df, i, filled, missing_items, outcome>>

NextRank == MissCandidatesCall

SpecRank == InitRank /\ [][NextRank]_vars

\* The number of keywords of the sourceName that the name contains.
KeywordCount(n) == Score(Split(src), n)

\* C9: the candidates are at most topk distinct names of the table, each
\* containing a keyword, by descending keyword count and then ascending
\* name; they do not depend on the order of the rows.
C9_Ranking ==
    pc = "ranked" =>
        /\ Len(cands) <= topk
        /\ \A a, b \in 1..Len(cands) : cands[a] = cands[b] => a = b
        /\ \A a \in 1..Len(cands) :
            /\ \E k \in 1..Len(df) : df[k].Name = cands[a]
            /\ KeywordCount(cands[a]) >= 1
        /\ \A a, b \in 1..Len(cands) :
            a < b => \/ KeywordCount(cands[a]) > KeywordCount(cands[b])
                     \/ /\ KeywordCount(cands[a]) = KeywordCount(cands[b])
                        /\ StrLess(cands[a], cands[b])
        /\ cands = candsPerm
        /\ ((\A k \in 1..Len(df) : KeywordCount(df[k].Name) = 0) => cands = <<>>)

\* Names of equal score were ranked and cut to topk, from rows given in
\* another order in which the lexically later name comes first.
C9_Witness ==
    /\ pc = "ranked"
    /\ Len(cands) = topk
    /\ Len(cands) >= 2
    /\ KeywordCount(cands[1]) = KeywordCount(cands[2])
    /\ \E k \in 1..Len(df) : KeywordCount(df[k].Name) >= 1 /\ \A a \in 1..Len(cands) : cands[a] # df[k].Name
    /\ perm # df
    /\ StrLess(perm[1].Name, df[1].Name)
    /\ cands = candsPerm

(***************************************************************************)
(* Specification of _safe_write_cell: successive writes to one template.   *)
(***************************************************************************)
WriteValues == {Num(1, 1), Str(FILL_IF_MISSING)}

InitWrite ==
    /\ pc = "write"
    /\ ws \in Templates
    /\ writes = <<>>
    /\ df = <<>> /\ src = <<>> /\ agg = <<>> /\ topk = 0 /\ perm = <<>>
    /\ sub = Matched({}) /\ v = NoneV /\ vPerm = NoneV
    /\ cands = <<>> /\ candsPerm = <<>>
    /\ map_df = <<>> /\ i = 0
    /\ filled = 0 /\ missing_items = <<>> /\ outcome = <<>>

SafeWriteCellCall ==
    /\ pc = "write"
    /\ Len(writes) < MaxWrites
    /\ \E addr \in Grid, value \in WriteValues :
        LET res == SafeWriteCell(ws, addr, value)
        IN  /\ ws' = res.sheet
            /\ writes' = Append(writes, WriteRecord(addr, value, res, ws))
    /\ UNCHANGED <<pc, df, src, agg, topk, perm, sub, v, vPerm, cands, candsPerm,
                   map_df, i, filled, missing_items, outcome>>

NextWrite == SafeWriteCellCall

SpecWrite == InitWrite /\ [][NextWrite]_vars

\* The merged region of the sheet that has the address as a member.
RegionsOf(addr) == {r \in ws.ranges : InRange(addr, r)}

\* The writes of the log addressed to a member of a region anchored at c.
RegionWrites(c) ==
    {k \in 1..Len(writes) : \E r \in RegionsOf(writes[k].addr) : Anchor(r) = c}

\* The writes of the log addressed to the plain cell c.
DirectWrites(c) ==
    {k \in 1..Len(writes) : writes[k].addr = c /\ c \notin ws.merged}

Latest(ks) == CHOOSE k \in ks : \A j \in ks : j <= k

\* C7: a write to a member of a merged region lands on the region's anchor,
\* the later of two such writes overwriting the earlier, and changes no
\* other cell: each cell holds the value last written to it or to a member
\* of the region it anchors, and the template's value if there was none.
C7_AnchorRoundTrip ==
    pc = "write" =>
        \A c \in Grid :
            LET ks == RegionWrites(c) \cup DirectWrites(c)
            IN  ws.cells[c] = IF ks = {} THEN NoneV ELSE writes[Latest(ks)].value

\* Two different values were written to two different members of one region,
\* neither of them its anchor, and the anchor holds the second.
C7_Witness ==
    /\ pc = "write"
    /\ Len(writes) >= 2
    /\ writes[1].addr # writes[2].addr
    /\ writes[1].value # writes[2].value
    /\ \E r \in ws.ranges :
        /\ InRange(writes[1].addr, r) /\ InRange(writes[2].addr, r)
        /\ writes[1].addr # Anchor(r) /\ writes[2].addr # Anchor(r)
        /\ ws.cells[Anchor(r)] = writes[2].value
        /\ ws.cells[writes[2].addr] = NoneV

(***************************************************************************)
(* Specification of main(): the mapping is normalised and the report time  *)
(* written, then the loop takes the mapping entries one by one.            *)
(***************************************************************************)
MainTables ==
    { <<>>,
      <<Row(<<1>>, <<"a">>, Num(1, 1)), Row(<<2>>, <<"a">>, Num(2, 1))>>,
      <<Row(<<1>>, <<"a">>, Str(<<"x">>)), Row(<<1>>, <<"B">>, Num(2, 1)),
        Row(<<1>>, <<"B">>, Num(0, 1))>> }

MapEntry(s, addr, mode) == [SourceName |-> s, TargetCell |-> addr, Agg |-> mode]

MainEntries ==
    {MapEntry(sm[1], addr, sm[2]) :
        sm \in {<<<<" ", "a">>, SUM>>, <<<<"b">>, <<"l", "a", "s", "t", " ">>>>, <<<<"(">>, LAST>>},
        addr \in Grid}

InitMain ==
    /\ pc = "start"
    /\ df \in MainTables
    /\ map_df \in SeqsUpTo(MainEntries, MaxMap)
    /\ ws \in Templates
    /\ writes = <<>>
    /\ i = 0 /\ filled = 0 /\ missing_items = <<>> /\ outcome = <<>>
    /\ src = <<>> /\ agg = <<>> /\ topk = 0 /\ perm = <<>>
    /\ sub = Matched({}) /\ v = NoneV /\ vPerm = NoneV
    /\ cands = <<>> /\ candsPerm = <<>>

\* map_df[col] = map_df[col].astype(str).str.strip()
Normalized(mapping) ==
    [k \in 1..Len(mapping) |->
        MapEntry(Strip(mapping[k].SourceName), mapping[k].TargetCell, Strip(mapping[k].Agg))]

\* main() up to the loop: the mapping normalised, write_datetime called.
Prepare ==
    /\ pc = "start"
    /\ map_df' = Normalized(map_df)
    /\ ws' = WriteDatetime(ws).sheet
    /\ writes' = WriteDatetime(ws).log
    /\ filled' = 0
    /\ missing_items' = <<>>
    /\ i' = 1
    /\ pc' = "loop"
    /\ UNCHANGED <<df, src, agg, topk, perm, sub, v, vPerm, cands, candsPerm, outcome>>

Terminal(state, value, w) ==
    [state |-> state, value |-> value, void |-> w.void, ret |-> w.ret]

\* An iteration in which match_rows raises: the exception leaves main().
LoopRaised ==
    /\ pc = "loop"
    /\ i <= Len(map_df)
    /\ MatchRows(df, map_df[i].SourceName).raised
    /\ src' = map_df[i].SourceName
    /\ agg' = map_df[i].Agg
    /\ sub' = MatchRows(df, map_df[i].SourceName)
    /\ pc' = "raised"
    /\ UNCHANGED <<df, topk, perm, v, vPerm, cands, candsPerm, ws, writes,
                   map_df, i, filled, missing_items, outcome>>

\* An iteration in which agg_values returns None.
LoopMissing ==
    /\ pc = "loop"
    /\ i <= Len(map_df)
    /\ LET row == map_df[i]
           m == MatchRows(df, row.SourceName)
           res == SafeWriteCell(ws, row.TargetCell, Str(FILL_IF_MISSING))
           w == WriteRecord(row.TargetCell, Str(FILL_IF_MISSING), res, ws)
       IN  /\ ~m.raised
           /\ NoneV \in AggValues(Sub(df, m.idx), row.Agg)
           /\ src' = row.SourceName
           /\ agg' = row.Agg
           /\ sub' = m
           /\ v' = NoneV
           /\ ws' = res.sheet
           /\ writes' = Append(writes, w)
           /\ missing_items' = Append(missing_items, row.SourceName)
           /\ cands' = IF DEBUG_MISS_CANDIDATES
                       THEN MissCandidates(df, row.SourceName, MISS_CANDIDATE_TOPK)
                       ELSE cands
           /\ outcome' = Append(outcome, Terminal("MISSING", Str(FILL_IF_MISSING), w))
    /\ i' = i + 1
    /\ UNCHANGED <<pc, df, topk, perm, vPerm, candsPerm, map_df, filled>>

\* An iteration in which agg_values returns a value.
LoopWritten ==
    /\ pc = "loop"
    /\ i <= Len(map_df)
    /\ LET row == map_df[i]
           m == MatchRows(df, row.SourceName)
       IN  /\ ~m.raised
           /\ \E val \in AggValues(Sub(df, m.idx), row.Agg) \ {NoneV} :
                LET res == SafeWriteCell(ws, row.TargetCell, val)
                    w == WriteRecord(row.TargetCell, val, res, ws)
                IN  /\ v' = val
                    /\ ws' = res.sheet
                    /\ writes' = Append(writes, w)
                    /\ outcome' = Append(outcome, Terminal("WRITTEN", val, w))
           /\ src' = row.SourceName
           /\ agg' = row.Agg
           /\ sub' = m
    /\ filled' = filled + 1
    /\ i' = i + 1
    /\ UNCHANGED <<pc, df, topk, perm, vPerm, cands, candsPerm, map_df, missing_items>>

\* The mapping is exhausted: the workbook is saved.
LoopExit ==
    /\ pc = "loop"
    /\ i > Len(map_df)
    /\ pc' = "done"
    /\ UNCHANGED <<df, src, agg, topk, perm, sub, v, vPerm, cands, candsPerm,
                   ws, writes, map_df, i, filled, missing_items, outcome>>

NextMain == Prepare \/ LoopRaised \/ LoopMissing \/ LoopWritten \/ LoopExit

SpecMain == InitMain /\ [][NextMain]_vars

\* The entries the loop has taken up.
TakenUp == {k \in 1..Len(map_df) : pc \in {"loop", "raised", "done"} /\ (k < i \/ (k = i /\ pc = "raised"))}

\* C1: every entry the loop takes up ends WRITTEN or MISSING, WRITTEN (and
\* counted) exactly when agg_values returned a value, MISSING (and its name
\* in the miss list) exactly when it returned None; after the loop the tally
\* and the miss list add up to the mapping.
C1_ExactlyOneTerminal ==
    /\ \A k \in TakenUp :
        /\ k <= Len(outcome)
        /\ outcome[k].state \in {"WRITTEN", "MISSING"}
        /\ outcome[k].state = "WRITTEN" <=> outcome[k].value.kind = "num"
        /\ outcome[k].state = "MISSING" <=> outcome[k].value = Str(FILL_IF_MISSING)
    /\ filled = Cardinality({k \in 1..Len(outcome) : outcome[k].state = "WRITTEN"})
    /\ Len(missing_items) = Cardinality({k \in 1..Len(outcome) : outcome[k].state = "MISSING"})
    /\ pc = "done" => filled + Len(missing_items) = Len(map_df)

\* C8: a write that finds no cell to write to is skipped and reported to the
\* caller, and the loop does not count its entry as written.
C8_VoidWriteSurfaced ==
    /\ \A k \in 1..Len(writes) : writes[k].void => writes[k].ret # NoneV
    /\ filled = Cardinality({k \in 1..Len(outcome) : outcome[k].state = "WRITTEN" /\ ~outcome[k].void})

\* The cell that a write to the address reaches, if any.
Targets(addr) ==
    IF addr \notin ws.merged THEN {addr} ELSE {Anchor(r) : r \in RegionsOf(addr)}

EntriesAt(c) == {k \in 1..Len(map_df) : c \in Targets(map_df[k].TargetCell)}

\* What write_datetime leaves in the cell.
ReportMetadata(c) ==
    IF c \in Targets(TIME_CELL) THEN TimeStr
    ELSE IF c \in Targets(DATE_CELL) THEN DateStr
    ELSE NoneV

\* C10: after the loop every cell that entries wrote to, directly or through
\* its merged region, holds the outcome of the last of them in mapping
\* order, whatever write_datetime had put there; every other cell is as
\* write_datetime left it.
C10_LastEntryWins ==
    pc = "done" =>
        \A c \in Grid :
            ws.cells[c] = IF EntriesAt(c) = {} THEN ReportMetadata(c)
                          ELSE outcome[Latest(EntriesAt(c))].value

\* Two entries with different outcomes reached, one of them through a merged
\* region, the cell that write_datetime had written the date to.
C10_Witness ==
    /\ pc = "done"
    /\ \E c \in Targets(DATE_CELL) :
        /\ Cardinality(EntriesAt(c)) >= 2
        /\ \E j, k \in EntriesAt(c) :
            /\ outcome[j].value # outcome[k].value
            /\ map_df[j].TargetCell # map_df[k].TargetCell
        /\ ws.cells[c] = outcome[Latest(EntriesAt(c))].value
    /\ missing_items # <<>>
    /\ cands # <<>>

====
